---- MODULE Spec2Model ----
(***************************************************************************)
(* Model of the subdomain reconnaissance orchestrator (src/recon/recon.py) *)
(* and of the ad-hoc Telegram notifier (src/notify/send_alert.py).         *)
(*                                                                         *)
(* Text is modelled as a sequence of one-character strings, so that        *)
(* str.strip, str.splitlines, "\n".join, sorted and file.readlines are     *)
(* computed the way Python computes them.                                  *)
(***************************************************************************)
EXTENDS Integers, Sequences, FiniteSets, TLC

VARIABLES
    targetsFile,    \* the TARGETS_JSON file on disk
    initialFile,    \* history: the TARGETS_JSON file as main() found it
    targets_data,   \* main(): the loaded list of targets (targets_data['targets'])
    pc,             \* main(): position in the function
    idx,            \* main(): position of the for loop in targets_data['targets']
    results,        \* run_all_tools(): the set `results`
    current_subs,   \* main(): current_subs
    previous_subs,  \* main(): previous_subs
    latest,         \* Snapshot Store: OUTPUT_DIR/<domain>/latest.txt
    dated,          \* Snapshot Store: OUTPUT_DIR/<domain>/subs-<today>.txt
    note,           \* history: what notify_telegram did in this scan cycle
    tmpLeft,        \* number of temporary documents existing in the temp directory
    scanOrder,      \* history: the list positions whose scan was started, in order
    notified,       \* history: list positions for which the notifier was invoked
    stored,         \* history: <<position, file>> for every Snapshot Store write
    errors,         \* history: <<position, step>> for every error caught at line 235
    saveCalls,      \* history: number of save_targets calls
    saveFailed,     \* history: the final save_targets raised (logged at line 243)
    outs,           \* history: what each tool produced in the recorded run_all_tools call
    alert,          \* history: what the last send_alert.notify_telegram call did
    calls           \* number of send_alert.notify_telegram calls made

mainVars == <<targetsFile, initialFile, targets_data, pc, idx, results, current_subs,
              previous_subs, latest, dated, note, scanOrder, notified, stored,
              errors, saveCalls, saveFailed>>
vars == <<targetsFile, initialFile, targets_data, pc, idx, results, current_subs,
          previous_subs, latest, dated, note, tmpLeft, scanOrder, notified, stored,
          errors, saveCalls, saveFailed, outs, alert, calls>>

(***************************************************************************)
(* Bounds of the model.                                                    *)
(***************************************************************************)
MaxTargets == 2
MaxAlerts == 2

(***************************************************************************)
(* Python text operations.                                                 *)
(***************************************************************************)
LF == "\n"
Whitespace == {" ", LF}

RECURSIVE lstrip(_)
lstrip(s) ==
    IF s = <<>> THEN s
    ELSE IF Head(s) \in Whitespace THEN lstrip(Tail(s)) ELSE s

RECURSIVE rstrip(_)
rstrip(s) ==
    IF s = <<>> THEN s
    ELSE IF s[Len(s)] \in Whitespace THEN rstrip(SubSeq(s, 1, Len(s) - 1)) ELSE s

strip(s) == rstrip(lstrip(s))

HasDot(s) == \E i \in 1..Len(s) : s[i] = "."

\* position of the first line break of t, 0 when there is none
FirstBreak(t) ==
    IF \E i \in 1..Len(t) : t[i] = LF
    THEN CHOOSE i \in 1..Len(t) : t[i] = LF /\ \A j \in 1..(i - 1) : t[j] # LF
    ELSE 0

RECURSIVE splitlines(_)
splitlines(t) ==
    IF t = <<>> THEN <<>>
    ELSE LET k == FirstBreak(t) IN
         IF k = 0 THEN <<t>>
         ELSE <<SubSeq(t, 1, k - 1)>> \o splitlines(SubSeq(t, k + 1, Len(t)))

RECURSIVE readlines(_)
readlines(t) ==
    IF t = <<>> THEN <<>>
    ELSE LET k == FirstBreak(t) IN
         IF k = 0 THEN <<t>>
         ELSE <<SubSeq(t, 1, k)>> \o readlines(SubSeq(t, k + 1, Len(t)))

Ord(c) ==
    CASE c = LF -> 10
      [] c = " " -> 32
      [] c = "." -> 46
      [] c = "a" -> 97
      [] c = "b" -> 98

RECURSIVE StrLess(_, _)
StrLess(s, t) ==
    IF t = <<>> THEN FALSE
    ELSE IF s = <<>> THEN TRUE
    ELSE IF Head(s) = Head(t) THEN StrLess(Tail(s), Tail(t))
    ELSE Ord(Head(s)) < Ord(Head(t))

RECURSIVE sorted(_)
sorted(S) ==
    IF S = {} THEN <<>>
    ELSE LET m == CHOOSE x \in S : \A y \in S : x = y \/ StrLess(x, y)
         IN <<m>> \o sorted(S \ {m})

RECURSIVE join(_)
join(lines) ==
    IF lines = <<>> THEN <<>>
    ELSE IF Len(lines) = 1 THEN lines[1]
    ELSE lines[1] \o <<LF>> \o join(Tail(lines))

Range(f) == {f[i] : i \in DOMAIN f}

(***************************************************************************)
(* Values.  A Python value that may be a string or something else is a     *)
(* record [t, v]: t is its type and v its characters when it is a string.  *)
(***************************************************************************)
Absent == "<absent>"                       \* a key a JSON object does not have
Str(s) == [t |-> "str", v |-> s]
NoneVal == [t |-> "none", v |-> <<>>]      \* None: JSON null, or dict.get of an absent key
NumVal == [t |-> "num", v |-> <<>>]        \* a JSON number
ListVal == [t |-> "list", v |-> <<>>]      \* a JSON array (unhashable)

AB == <<"a", ".", "b">>
BA == <<"b", ".", "a">>

\* dict.get(key, default)
Get(d, key, default) == IF d[key] = Absent THEN default ELSE d[key]

\* `not x` for the values a target's domain and enabled fields take
Falsy(x) == x \in {"None", "", "false"}

(***************************************************************************)
(* Tool Runner inputs: what a subprocess.run call can produce.             *)
(***************************************************************************)
ToolFailed == [failed |-> TRUE, stdout |-> <<>>]       \* spawn error or timeout
Out(text) == [failed |-> FALSE, stdout |-> text]

LineOutputs ==
    { <<>>,                                            \* no output
      AB \o <<LF>>,                                    \* "a.b\n"
      <<" ">> \o AB \o <<" ", LF, "b", LF>>,           \* " a.b \nb\n"
      BA \o <<LF, LF>> \o AB }                         \* "b.a\n\na.b"
LineOutcomes == {ToolFailed} \cup {Out(t) : t \in LineOutputs}

\* one line of bbot's output, as json.loads sees it
JInvalid == [json |-> "invalid", type |-> Absent, data |-> NoneVal]
JScalar == [json |-> "scalar", type |-> Absent, data |-> NoneVal]
JObject(type, data) == [json |-> "object", type |-> type, data |-> data]

BbotFailed == [failed |-> TRUE, lines |-> <<>>]
BbotOut(lines) == [failed |-> FALSE, lines |-> lines]
BbotOutputs ==
    { <<>>,
      <<JInvalid, JObject("subdomain", Str(BA))>>,
      <<JObject("dns", Str(AB)), JScalar, JObject(Absent, Str(BA)),
        JObject("subdomain", ListVal)>>,
      <<JObject("subdomain", NoneVal), JObject("subdomain", Str(AB))>>,
      <<JObject("subdomain", NumVal)>>,
      <<JObject("subdomain", Str(AB \o <<LF>> \o BA))>> }
BbotOutcomes == {BbotFailed} \cup {BbotOut(l) : l \in BbotOutputs}

NoOuts == [subfinder |-> ToolFailed, amass |-> ToolFailed,
           findomain |-> ToolFailed, bbot |-> BbotFailed]

(***************************************************************************)
(* run_all_tools                                                           *)
(***************************************************************************)
\* try: results.update(tool.stdout.splitlines())  except Exception: print
AfterLineTool(res, o) ==
    IF o.failed THEN res
    ELSE res \cup {Str(l) : l \in Range(splitlines(o.stdout))}

\* the body of the loop over bbot's lines
BbotLine(res, line) ==
    IF line.json # "object" THEN res                 \* json.loads or .get raises: continue
    ELSE IF Get(line, "type", "None") # "subdomain" THEN res
    ELSE IF line.data.t = "list" THEN res            \* results.add raises TypeError: continue
    ELSE res \cup {line.data}

RECURSIVE BbotLines(_, _)
BbotLines(res, lines) ==
    IF lines = <<>> THEN res
    ELSE BbotLines(BbotLine(res, Head(lines)), Tail(lines))

AfterBbot(res, o) == IF o.failed THEN res ELSE BbotLines(res, o.lines)

\* r.strip() on a value that is not a string raises AttributeError
CleanRaises(res) == \E r \in res : r.t # "str"

clean_results(res) ==
    {strip(r.v) : r \in {x \in res : strip(x.v) # <<>> /\ HasDot(x.v)}}

(***************************************************************************)
(* Snapshot Store                                                          *)
(***************************************************************************)
NoFile == [exists |-> FALSE, text |-> <<>>]
File(text) == [exists |-> TRUE, text |-> text]

get_previous_subs(file) ==
    IF file.exists
    THEN {strip(l) : l \in Range(readlines(file.text))} \ {<<>>}
    ELSE {}

\* "\n".join(sorted(subdomains))
SnapshotText(subs) == join(sorted(subs))

(***************************************************************************)
(* Target List                                                             *)
(***************************************************************************)
Domains == {"example.com", "other.org"}
Now == "T_run"                      \* datetime.utcnow() of this run

Target(d, e, l) == [domain |-> d, enabled |-> e, last_scanned |-> l]
TargetPool ==
    { Target("example.com", "true", "None"),
      Target("other.org", "true", "T_prev"),
      Target("example.com", "false", "T_prev"),
      Target("other.org", Absent, "None"),
      Target(Absent, "true", "None"),
      Target("", "true", "T_prev") }

RECURSIVE SeqsUpTo(_, _)
SeqsUpTo(S, n) ==
    IF n = 0 THEN {<<>>}
    ELSE LET shorter == SeqsUpTo(S, n - 1)
         IN shorter \cup {Append(s, x) : s \in shorter, x \in S}

Missing == [state |-> "missing", targets |-> <<>>]
Malformed == [state |-> "malformed", targets |-> <<>>]
Valid(ts) == [state |-> "valid", targets |-> ts]
TargetFiles == {Missing, Malformed} \cup {Valid(ts) : ts \in SeqsUpTo(TargetPool, MaxTargets)}

\* the document create_sample_targets writes
sample_data == Valid(<<Target("example.com", "true", "None")>>)

\* a loop head that forgets the enabled test
SkipsDomainOnly(target) == Falsy(Get(target, "domain", "None"))

\* the two tests at the head of the loop body
Skips(target) ==
    Falsy(Get(target, "domain", "None")) \/ Falsy(Get(target, "enabled", "false"))

(***************************************************************************)
(* Notifiers                                                               *)
(***************************************************************************)
NoNote == [called |-> FALSE, subs |-> {}, uploadFailed |-> FALSE, delivered |-> FALSE,
           fallbacks |-> 0, tmp |-> 0]

\* what can happen inside the try block of either notify_telegram
NotifyOutcomes == {"create_failed", "write_failed", "upload_raised", "upload_status", "sent"}
UploadFailed(oc) == oc \in {"upload_raised", "upload_status"}
\* the temporary document exists from its creation until os.remove, which only
\* the success path reaches
TmpCreated(oc) == oc # "create_failed"
TmpRemaining(oc) == IF TmpCreated(oc) /\ oc # "sent" THEN 1 ELSE 0

\* recon.notify_telegram(domain, new_subdomains): what the call did
ReconNotify(new, oc) ==
    IF new = {} THEN NoNote
    ELSE [called |-> TRUE, subs |-> new, uploadFailed |-> UploadFailed(oc),
          delivered |-> (oc = "sent"), fallbacks |-> 0, tmp |-> TmpRemaining(oc)]

NoAlert == [called |-> FALSE, domain |-> "", count |-> 0, outcome |-> "none",
            fallbacks |-> 0, fallback |-> "none", fbCount |-> 0, fbDomain |-> "",
            tmp |-> 0]

\* send_alert.notify_telegram(domain, new_subdomains): what the call did;
\* fb is what the fallback requests.post does when it is reached
AlertNotify(d, subs, oc, fb) ==
    IF subs = <<>> THEN NoAlert
    ELSE IF oc = "sent"
    THEN [called |-> TRUE, domain |-> d, count |-> Len(subs), outcome |-> oc,
          fallbacks |-> 0, fallback |-> "none", fbCount |-> 0, fbDomain |-> "",
          tmp |-> 0]
    ELSE [called |-> TRUE, domain |-> d, count |-> Len(subs), outcome |-> oc,
          fallbacks |-> 1, fallback |-> IF fb = "raised" THEN "failed" ELSE "sent",
          fbCount |-> Len(subs), fbDomain |-> d, tmp |-> TmpRemaining(oc)]

AlertLists == {<<>>, <<AB>>, <<AB, BA>>, <<BA, BA>>}

(***************************************************************************)
(* main() of recon.py                                                      *)
(***************************************************************************)
Idle ==
    /\ targets_data = <<>>
    /\ idx = 1
    /\ results = {}
    /\ current_subs = {}
    /\ previous_subs = {}
    /\ dated = [d \in Domains |-> NoFile]
    /\ note = NoNote
    /\ tmpLeft = 0
    /\ scanOrder = <<>>
    /\ notified = {}
    /\ stored = {}
    /\ errors = {}
    /\ saveCalls = 0
    /\ saveFailed = FALSE
    /\ outs = NoOuts
    /\ alert = NoAlert
    /\ calls = 0

\* the Snapshot Store a run can find: nothing, or what an earlier run's save_results left
InitialStores ==
    { [d \in Domains |-> NoFile],
      [d \in Domains |-> IF d = "example.com" THEN File(SnapshotText({AB, BA})) ELSE NoFile] }

Init ==
    /\ targetsFile \in TargetFiles
    /\ initialFile = targetsFile
    /\ latest \in InitialStores
    /\ pc = "start"
    /\ Idle

CurDomain == targets_data[idx].domain

\* the loop body's locals are dead once the body is left
CycleOver ==
    /\ results' = {}
    /\ current_subs' = {}
    /\ previous_subs' = {}
    /\ note' = NoNote

\* a domain boundary that lets the error leave main()
ScanErrorPropagates(step) ==
    /\ pc' = "crashed"
    /\ idx' = idx
    /\ errors' = errors \cup {<<idx, step>>}
    /\ CycleOver

\* except Exception as e: print(...) at the domain boundary; the loop goes on
ScanError(step) ==
    /\ pc' = "loop"
    /\ idx' = idx + 1
    /\ errors' = errors \cup {<<idx, step>>}
    /\ CycleOver

\* load_targets as main() sees it
LoadOutcome(file) ==
    CASE file.state = "missing" -> "FileNotFoundError"
      [] file.state = "malformed" -> "JSONDecodeError"
      [] OTHER -> "loaded"

\* create_sample_targets, load_targets and the `targets` test
Start ==
    /\ pc = "start"
    /\ \E created \in (IF targetsFile.state = "missing" THEN BOOLEAN ELSE {TRUE}) :
         IF ~created
         THEN \* os.makedirs or open raises inside create_sample_targets, outside any try
              /\ pc' = "crashed"
              /\ UNCHANGED <<targetsFile, targets_data>>
         ELSE LET file == IF targetsFile.state = "missing" THEN sample_data ELSE targetsFile
              IN /\ targetsFile' = file
                 /\ IF LoadOutcome(file) = "loaded" /\ file.targets # <<>>
                    THEN targets_data' = file.targets /\ pc' = "loop"
                    ELSE targets_data' = targets_data /\ pc' = "done"
    /\ UNCHANGED <<initialFile, idx, results, current_subs, previous_subs, latest, dated,
                   note, tmpLeft, scanOrder, notified, stored, errors, saveCalls,
                   saveFailed, outs, alert, calls>>

LoopSkip ==
    /\ pc = "loop"
    /\ idx <= Len(targets_data)
    /\ Skips(targets_data[idx])
    /\ idx' = idx + 1
    /\ UNCHANGED <<targetsFile, initialFile, targets_data, pc, results, current_subs,
                   previous_subs, latest, dated, note, tmpLeft, scanOrder, notified,
                   stored, errors, saveCalls, saveFailed, outs, alert, calls>>

LoopScan ==
    /\ pc = "loop"
    /\ idx <= Len(targets_data)
    /\ ~Skips(targets_data[idx])
    /\ pc' = "subfinder"
    /\ scanOrder' = Append(scanOrder, idx)
    /\ UNCHANGED <<targetsFile, initialFile, targets_data, idx, results, current_subs,
                   previous_subs, note, latest, dated, tmpLeft, notified, stored, errors,
                   saveCalls, saveFailed, outs, alert, calls>>

LoopEnd ==
    /\ pc = "loop"
    /\ idx > Len(targets_data)
    /\ pc' = "save_targets"
    /\ UNCHANGED <<targetsFile, initialFile, targets_data, idx, results, current_subs,
                   previous_subs, latest, dated, note, tmpLeft, scanOrder, notified,
                   stored, errors, saveCalls, saveFailed, outs, alert, calls>>

\* one tool of run_all_tools: `at` is its position, `then` the next one
ToolStep(at, then, res) ==
    /\ pc = at
    /\ pc' = then
    /\ results' = res
    /\ UNCHANGED <<targetsFile, initialFile, targets_data, idx, current_subs,
                   previous_subs, latest, dated, note, tmpLeft, scanOrder, notified,
                   stored, errors, saveCalls, saveFailed, alert, calls>>

RunSubfinder ==
    \E o \in LineOutcomes :
        ToolStep("subfinder", "amass", AfterLineTool(results, o)) /\ UNCHANGED outs
RunAmass ==
    \E o \in LineOutcomes :
        ToolStep("amass", "findomain", AfterLineTool(results, o)) /\ UNCHANGED outs
RunFindomain ==
    \E o \in LineOutcomes :
        ToolStep("findomain", "bbot", AfterLineTool(results, o)) /\ UNCHANGED outs
RunBbot ==
    \E o \in BbotOutcomes :
        ToolStep("bbot", "clean", AfterBbot(results, o)) /\ UNCHANGED outs

\* line 94 of run_all_tools and its return into main()
CleanResults ==
    /\ pc = "clean"
    /\ IF CleanRaises(results)
       THEN ScanError("run_all_tools")
       ELSE /\ current_subs' = clean_results(results)
            /\ pc' = "previous"
            /\ UNCHANGED <<idx, errors, results, previous_subs, note>>
    /\ UNCHANGED <<targetsFile, initialFile, targets_data, latest, dated, tmpLeft,
                   scanOrder, notified, stored, saveCalls, saveFailed, outs, alert, calls>>

GetPrevious ==
    /\ pc = "previous"
    /\ \E readFails \in (IF latest[CurDomain].exists THEN BOOLEAN ELSE {FALSE}) :
         IF readFails
         THEN ScanError("get_previous_subs")
         ELSE /\ previous_subs' = get_previous_subs(latest[CurDomain])
              /\ pc' = "diff"
              /\ UNCHANGED <<idx, errors, results, current_subs, note>>
    /\ UNCHANGED <<targetsFile, initialFile, targets_data, latest, dated, tmpLeft,
                   scanOrder, notified, stored, saveCalls, saveFailed, outs, alert, calls>>

\* a diff that forgets the subtraction
DiffKeepsAll(current, previous) == current

\* new_subs = current_subs - previous_subs
Diff(current, previous) == current \ previous

DiffNotify ==
    /\ pc = "diff"
    /\ LET new_subs == Diff(current_subs, previous_subs) IN
       \E oc \in (IF new_subs = {} THEN {"sent"} ELSE NotifyOutcomes) :
         /\ note' = ReconNotify(new_subs, oc)
         /\ tmpLeft' = tmpLeft + note'.tmp
         /\ notified' = IF new_subs # {} THEN notified \cup {idx} ELSE notified
    /\ pc' = "save"
    /\ UNCHANGED <<targetsFile, initialFile, targets_data, idx, results, current_subs,
                   previous_subs, latest, dated, scanOrder, stored, errors, saveCalls,
                   saveFailed, outs, alert, calls>>

\* save_results: both files written; makedirs or open(today_file) raises; open(latest_file)
\* raises; open(latest_file) has truncated the file and the write raises
SaveOutcomes == {"saved", "dated_failed", "latest_failed", "latest_truncated"}

SaveResults ==
    /\ pc = "save"
    /\ \E oc \in SaveOutcomes :
         LET text == File(SnapshotText(current_subs)) IN
         /\ dated' = IF oc = "dated_failed" THEN dated
                     ELSE [dated EXCEPT ![CurDomain] = text]
         /\ latest' = CASE oc = "saved" -> [latest EXCEPT ![CurDomain] = text]
                         [] oc = "latest_truncated" -> [latest EXCEPT ![CurDomain] = File(<<>>)]
                         [] OTHER -> latest
         /\ stored' = stored \cup
                        (IF oc = "dated_failed" THEN {} ELSE {<<idx, "dated">>}) \cup
                        (IF oc \in {"saved", "latest_truncated"}
                         THEN {<<idx, "latest">>} ELSE {})
         /\ IF oc = "saved"
            THEN /\ pc' = "stamp"
                 /\ UNCHANGED <<idx, errors, results, current_subs, previous_subs, note>>
            ELSE ScanError("save_results")
    /\ UNCHANGED <<targetsFile, initialFile, targets_data, tmpLeft, scanOrder, notified,
                   saveCalls, saveFailed, outs, alert, calls>>

\* a cycle that forgets the timestamp
StampNothing(data, i) == data

\* target['last_scanned'] = datetime.datetime.utcnow().isoformat() + 'Z'
StampTarget(data, i) == [data EXCEPT ![i].last_scanned = Now]

Stamp ==
    /\ pc = "stamp"
    /\ targets_data' = StampTarget(targets_data, idx)
    /\ idx' = idx + 1
    /\ pc' = "loop"
    /\ CycleOver
    /\ UNCHANGED <<targetsFile, initialFile, latest, dated, tmpLeft, scanOrder, notified,
                   stored, errors, saveCalls, saveFailed, outs, alert, calls>>

\* save_targets: written; open raises; open has truncated the file and json.dump raises
TargetsSaveOutcomes == {"written", "open_failed", "dump_failed"}

\* try: save_targets(targets_data)  except Exception: print
SaveTargets ==
    /\ pc = "save_targets"
    /\ \E oc \in TargetsSaveOutcomes :
         /\ targetsFile' = CASE oc = "written" -> Valid(targets_data)
                              [] oc = "open_failed" -> targetsFile
                              [] oc = "dump_failed" -> Malformed
         /\ saveFailed' = (oc # "written")
    /\ saveCalls' = saveCalls + 1
    /\ pc' = "done"
    /\ UNCHANGED <<initialFile, targets_data, idx, results, current_subs, previous_subs,
                   latest, dated, note, tmpLeft, scanOrder, notified, stored, errors,
                   outs, alert, calls>>

Next ==
    \/ Start
    \/ LoopSkip
    \/ LoopScan
    \/ LoopEnd
    \/ RunSubfinder
    \/ RunAmass
    \/ RunFindomain
    \/ RunBbot
    \/ CleanResults
    \/ GetPrevious
    \/ DiffNotify
    \/ SaveResults
    \/ Stamp
    \/ SaveTargets

Spec == Init /\ [][Next]_vars

(***************************************************************************)
(* run_all_tools on its own: one call, with what each tool produced kept   *)
(* in `outs` so that the returned set can be compared with the outputs.    *)
(***************************************************************************)
InitTools ==
    /\ targetsFile \in {Valid(<<t>>) : t \in {x \in TargetPool : ~Skips(x)}}
    /\ initialFile = targetsFile
    /\ targets_data = targetsFile.targets
    /\ pc = "subfinder"
    /\ idx = 1
    /\ scanOrder = <<1>>
    /\ results = {}
    /\ current_subs = {}
    /\ previous_subs = {}
    /\ latest = [d \in Domains |-> NoFile]
    /\ dated = [d \in Domains |-> NoFile]
    /\ note = NoNote
    /\ tmpLeft = 0
    /\ notified = {}
    /\ stored = {}
    /\ errors = {}
    /\ saveCalls = 0
    /\ saveFailed = FALSE
    /\ outs = NoOuts
    /\ alert = NoAlert
    /\ calls = 0

RecSubfinder ==
    \E o \in LineOutcomes :
        /\ ToolStep("subfinder", "amass", AfterLineTool(results, o))
        /\ outs' = [outs EXCEPT !.subfinder = o]
RecAmass ==
    \E o \in LineOutcomes :
        /\ ToolStep("amass", "findomain", AfterLineTool(results, o))
        /\ outs' = [outs EXCEPT !.amass = o]
RecFindomain ==
    \E o \in LineOutcomes :
        /\ ToolStep("findomain", "bbot", AfterLineTool(results, o))
        /\ outs' = [outs EXCEPT !.findomain = o]
RecBbot ==
    \E o \in BbotOutcomes :
        /\ ToolStep("bbot", "clean", AfterBbot(results, o))
        /\ outs' = [outs EXCEPT !.bbot = o]

NextTools ==
    \/ RecSubfinder
    \/ RecAmass
    \/ RecFindomain
    \/ RecBbot
    \/ CleanResults

SpecTools == InitTools /\ [][NextTools]_vars

(***************************************************************************)
(* The ad-hoc notifier: send_alert.py --domain <d> --subdomains <csv>,     *)
(* run up to MaxAlerts times.                                              *)
(***************************************************************************)
InitAlert ==
    /\ targetsFile = Missing
    /\ initialFile = Missing
    /\ latest = [d \in Domains |-> NoFile]
    /\ pc = "send_alert"
    /\ Idle

SendAlert ==
    /\ pc = "send_alert"
    /\ calls < MaxAlerts
    /\ \E d \in Domains, subs \in AlertLists, oc \in NotifyOutcomes,
          fb \in {"returned", "raised"} :
         /\ alert' = AlertNotify(d, subs, oc, fb)
         /\ tmpLeft' = tmpLeft + alert'.tmp
    /\ calls' = calls + 1
    /\ UNCHANGED <<mainVars, outs>>

NextAlert == SendAlert

SpecAlert == InitAlert /\ [][NextAlert]_vars

(***************************************************************************)
(* Properties                                                              *)
(***************************************************************************)
\* the Target List the loop works on, as it was loaded
Loaded == IF initialFile.state = "valid" THEN initialFile.targets ELSE sample_data.targets

\* a target entry the loop has to skip: enabled false or absent, domain missing or empty
MustSkip(t) == t.enabled \in {"false", Absent} \/ t.domain \in {Absent, ""}

\* the list positions the loop has to scan, in list order
ToScan(data) ==
    LET Wanted(i) == ~MustSkip(data[i])
    IN SelectSeq([i \in 1..Len(data) |-> i], Wanted)

Raised(i) == \E e \in errors : e[1] = i
InCycle == pc \in {"subfinder", "amass", "findomain", "bbot", "clean", "previous",
                   "diff", "save", "stamp"}

\* C1: when main() starts and the Target List file does not exist, the run performs
\* no scan, no Snapshot Store write and no notification attempt before it ends.
C1_MissingFileNoSideEffects ==
    initialFile.state = "missing" =>
        /\ scanOrder = <<>>
        /\ stored = {}
        /\ notified = {}
        /\ \A d \in Domains : ~dated[d].exists

\* C2: for every call of notify_telegram with a non-empty new-hostname set, the
\* temporary document the call created no longer exists when the call returns,
\* whether the upload succeeded or failed.
C2_TempDocumentRemoved ==
    /\ alert.called => alert.tmp = 0
    /\ note.called => note.tmp = 0

\* C3: whenever the attachment upload fails for a non-empty new-hostname set, exactly
\* one fallback plain-text message stating the count and the domain is attempted,
\* by the scan cycle's notifier as well as by the ad-hoc one.
C3_FallbackOnUploadFailure ==
    /\ (note.called /\ note.uploadFailed) => note.fallbacks = 1
    /\ (alert.called /\ UploadFailed(alert.outcome)) =>
          /\ alert.fallbacks = 1
          /\ alert.fbCount = alert.count
          /\ alert.fbDomain = alert.domain

\* C4: in every scan cycle the set handed to the notifier is exactly current minus
\* previous, previous being the trimmed non-empty lines of the domain's latest file
\* before this cycle's write; it holds no hostname of previous, and the notifier is
\* invoked if and only if that set is non-empty.
C4_NotifierGetsDifference ==
    /\ pc = "save" =>
          LET previous == get_previous_subs(latest[CurDomain])
              new == current_subs \ previous
          IN /\ note.called <=> new # {}
             /\ idx \in notified <=> new # {}
             /\ note.called => note.subs = new /\ note.subs \cap previous = {}
    /\ pc \in {"subfinder", "amass", "findomain", "bbot", "clean", "previous", "diff"} =>
          ~note.called /\ idx \notin notified

C4_Witness ==
    /\ pc = "save"
    /\ note.called
    /\ current_subs \cap get_previous_subs(latest[CurDomain]) # {}

\* C5: after the scan cycle of an enabled domain completes, the domain's latest
\* snapshot holds exactly the current hostname set of the cycle, sorted, one per
\* line, so that a following cycle reads back exactly this set as previous.
C5_LatestHoldsCurrent ==
    pc = "stamp" =>
        /\ latest[CurDomain].exists
        /\ splitlines(latest[CurDomain].text) = sorted(current_subs)
        /\ get_previous_subs(latest[CurDomain]) = current_subs

\* C6: a target entry whose enabled flag is false or absent, or whose domain is
\* missing or empty, is skipped: no tool run, no notification, no Snapshot Store
\* write, and its last_scanned is left unchanged, in memory and in the file written
\* at the end of the run.
C6_SkippedEntriesUntouched ==
    \A i \in 1..Len(targets_data) :
        MustSkip(Loaded[i]) =>
            /\ \A k \in 1..Len(scanOrder) : scanOrder[k] # i
            /\ i \notin notified
            /\ \A w \in stored : w[1] # i
            /\ targets_data[i] = Loaded[i]
            /\ targetsFile.state = "valid" => targetsFile.targets[i] = Loaded[i]

C6_Witness ==
    /\ pc = "done"
    /\ saveCalls = 1
    /\ ~saveFailed
    /\ \E i, j \in 1..Len(targets_data) :
          /\ i < j
          /\ ~MustSkip(Loaded[i])
          /\ targetsFile.targets[i].last_scanned = Now
          /\ MustSkip(Loaded[j])
          /\ Loaded[j].domain = Loaded[i].domain

\* C7 as stated: for every enabled target with a domain, the Target List persisted at
\* the end of the run carries this run's timestamp as last_scanned, also when a step
\* of the target's cycle raised an error.
C7_StampedRegardless ==
    (pc = "done" /\ saveCalls = 1 /\ ~saveFailed) =>
        \A i \in 1..Len(targets_data) :
            ~MustSkip(Loaded[i]) => targetsFile.targets[i].last_scanned = Now

\* C7 as amended: an enabled target with a domain gets this run's timestamp exactly
\* when its cycle ran to its end; when a step of the cycle raised, its last_scanned
\* is left as loaded.  The final write persists these values when it succeeds.
C7_StampedIffCycleCompleted ==
    /\ \A i \in 1..Len(targets_data) :
          (i < idx /\ ~MustSkip(Loaded[i])) =>
              targets_data[i].last_scanned =
                  IF Raised(i) THEN Loaded[i].last_scanned ELSE Now
    /\ (pc = "done" /\ saveCalls = 1 /\ ~saveFailed) => targetsFile = Valid(targets_data)

C7_Witness ==
    /\ pc = "done"
    /\ saveCalls = 1
    /\ ~saveFailed
    /\ \E i, j \in 1..Len(targets_data) :
          /\ Raised(i)
          /\ targetsFile.targets[i].last_scanned = Loaded[i].last_scanned
          /\ ~Raised(j)
          /\ ~MustSkip(Loaded[j])
          /\ targetsFile.targets[j].last_scanned = Now

\* what the claims C8 and C9 take run_all_tools to return, from the tools' outputs
LineToolLines(o) ==
    UNION {IF o[t].failed THEN {} ELSE Range(splitlines(o[t].stdout))
           : t \in {"subfinder", "amass", "findomain"}}

\* a bbot line the Tool Runner has to skip: not JSON, not an object, no type, no data
LineSkipped(line) ==
    line.json # "object" \/ line.type = Absent \/ line.data.t = "none"

SubdomainPayloads(o) ==
    IF o.bbot.failed THEN {}
    ELSE {line.data.v : line \in {l \in Range(o.bbot.lines) :
                                     ~LineSkipped(l) /\ l.type = "subdomain"
                                     /\ l.data.t = "str"}}

Hostnames(lines) == {strip(l) : l \in {x \in lines : strip(x) # <<>> /\ HasDot(x)}}

\* bbot's lines are all of a kind C8 speaks of: to be skipped, or a record with a
\* string payload
OnlyLinesOfC8(o) ==
    \A l \in Range(o.bbot.lines) :
        LineSkipped(l) \/ l.data.t = "str" \/ l.type # "subdomain"

\* C8: every line of the JSON-lines tool is handled independently: a line that is
\* not JSON, not an object or lacks type or data is skipped without raising and
\* without affecting the other lines or the other tools' results; only records
\* tagged subdomain contribute their data value.
C8_BadLinesSkipped ==
    OnlyLinesOfC8(outs) =>
        /\ ~Raised(1)
        /\ pc = "clean" => NoneVal \notin results
        /\ pc = "previous" =>
              current_subs = Hostnames(LineToolLines(outs) \cup SubdomainPayloads(outs))

\* C9: for every combination of per-tool outcomes run_all_tools returns, without
\* raising, exactly the trimmed output lines of the tools that did not fail that are
\* non-empty and contain a dot; no element is empty, padded or without a dot.
C9_ReturnsFilteredUnion ==
    /\ ~Raised(1)
    /\ pc = "previous" =>
          /\ current_subs = Hostnames(LineToolLines(outs) \cup SubdomainPayloads(outs))
          /\ \A h \in current_subs : h # <<>> /\ strip(h) = h /\ HasDot(h)

\* C10: an error raised in one domain's cycle is caught at the domain boundary and
\* does not stop the run: every enabled target is scanned in list order, the Target
\* List is persisted exactly once after the last target, and a failure of that write
\* is logged and not re-raised.
C10_ErrorsStayInTheirCycle ==
    /\ pc = "crashed" => (errors = {} /\ scanOrder = <<>> /\ ~saveFailed)
    /\ (pc \in {"save_targets", "done"} /\ targets_data # <<>>) =>
          scanOrder = ToScan(Loaded)
    /\ (pc = "loop" \/ InCycle) =>
          /\ Len(scanOrder) <= Len(ToScan(Loaded))
          /\ scanOrder = SubSeq(ToScan(Loaded), 1, Len(scanOrder))
    /\ saveCalls = (IF pc = "done" /\ targets_data # <<>> THEN 1 ELSE 0)

C10_Witness ==
    /\ pc = "done"
    /\ saveFailed
    /\ \E e \in errors : \E k \in 1..Len(scanOrder) : scanOrder[k] > e[1]

====
